---- MODULE Spec2Model ----
(***************************************************************************)
(* Model of git-sheet-work: the file-tree builder of the working-tree view *)
(* (two variants), the status action that parses `git status --porcelain`  *)
(* (three copies), the page that shows its changes, and the Google Sheets  *)
(* commit store with its two aggregations (by commit, by file).            *)
(*                                                                         *)
(* Text that the code splits, joins or compares character by character     *)
(* (file paths, node names) is a sequence of one-character strings.  Text  *)
(* that the code only copies, concatenates or tests for equality (sheet    *)
(* cells) is a TLA+ string.                                                *)
(***************************************************************************)
EXTENDS Integers, Sequences, FiniteSets, TLC

VARIABLES
    changes,        \* GitChange[]: what the status action returns, what buildFileTree is handed
    variant,        \* which buildFileTree produced fileTree: "none", "index", "pathMap"
    fileTree,       \* FileTreeNode[] returned by buildFileTree
    commitsSheet,   \* rows of the sheet "Commits", row 1 first
    uniqueSheet,    \* rows of the sheet "Archivos Únicos" (<<>>: absent or empty)
    uniqueFilesMap, \* uniqueFilesMap of the last createUniqueFilesSheet, insertion order
    lastCall,       \* the service method that ran last
    returned,       \* what it returned (getCommits: the CommitData list)
    failed,         \* TRUE when it threw
    commitData,     \* the argument of the last addCommit (<<>>: none yet)
    addedCommits,   \* the arguments of the addCommit calls that succeeded, in call order
    syncPc,         \* where the sync action is: "idle", "fetching", "adding", "fetchFailed", "done"
    syncRepositoryType, \* its `repositoryType`
    syncCommits,    \* its `commits`: what getRecentCommits returned
    syncNext,       \* how many of them its loop has handed to addCommit
    syncResponse,   \* what it answered: "none", "success", "error"
    syncBase,       \* how many rows "Commits" held when the request arrived
    calls,          \* the addCommit calls in progress that carry a colour, by caller
    background,     \* the coloured rows of "Commits": pairs of 0-based row index and colour
    statusOutput,   \* stdout of `git status --porcelain`, character by character
    route,          \* which status action parsed it: "none", "index", "part_003", "part_004"
    diffFails,      \* the files whose `git diff --numstat` exits with an error
    lineIndex,      \* how many lines the loop of the status action has finished
    lookups,        \* the `git diff --numstat` processes the loop has started, in order
    responded,      \* TRUE once the status action has returned its json
    actionData,     \* useActionData(): the changes of the last form submission
    fetcherData,    \* fetcher.data: the answer to the last add or unstage
    fetcherSubmission, \* the form data the fetcher has in flight
    selectedFiles,  \* React state of Index()
    optimisticChanges,
    lastValidChanges,
    isUnstaging,
    expandedFolders, \* the paths of the folders shown open
    latestResponse   \* which answer arrived last: "none", "action" (actionData), "fetcher"

treeVars == <<changes, variant, fileTree>>
syncVars == <<syncPc, syncRepositoryType, syncCommits, syncNext, syncResponse, syncBase>>
colourVars == <<calls, background>>
sheetVars == <<commitsSheet, uniqueSheet, uniqueFilesMap, lastCall, returned, failed, commitData,
               addedCommits, syncPc, syncRepositoryType, syncCommits, syncNext, syncResponse,
          syncBase, calls, background>>
statusVars == <<statusOutput, route, diffFails, lineIndex, lookups, responded>>
uiVars == <<actionData, fetcherData, fetcherSubmission, selectedFiles, optimisticChanges,
           lastValidChanges, isUnstaging, expandedFolders, latestResponse>>
vars == <<changes, variant, fileTree,
          commitsSheet, uniqueSheet, uniqueFilesMap, lastCall, returned, failed, commitData,
          addedCommits, syncPc, syncRepositoryType, syncCommits, syncNext, syncResponse,
          syncBase, calls, background,
          statusOutput, route, diffFails, lineIndex, lookups, responded,
          actionData, fetcherData, fetcherSubmission, selectedFiles, optimisticChanges,
          lastValidChanges,
          isUnstaging, expandedFolders, latestResponse>>

(***************************************************************************)
(* Bounds                                                                  *)
(***************************************************************************)
MaxChanges == 3
MaxRows == 2

(***************************************************************************)
(* Characters and paths                                                    *)
(***************************************************************************)
Slash == "/"
Backslash == "\\"

\* The paths of the bounded input set: plain names, nested paths, a path that
\* is a directory prefix of another, both separator styles, and paths with
\* an empty segment (git prints an untracked directory as "a/").
Files ==
    { <<>>,
      <<"/">>,
      <<"a">>,
      <<"B">>,
      <<"c">>,
      <<"a", "/">>,
      <<"a", "/", "a">>,
      <<"a", "/", "B">>,
      <<"B", "/", "a">>,
      <<"a", "\\", "B">>,
      <<"a", "/", "a", "/", "B">> }


\* GitChange as the status action builds it for a line without diff counts.
GitChange(status, file) ==
    [status |-> status, file |-> file,
     isStaged |-> FALSE, isUntracked |-> (status = "?")]

\* Every path as a modified file; two of them also as an untracked file, so
\* that a list can hold the same file twice with different records.
GitChanges ==
    {GitChange("M", f) : f \in Files}
        \cup {GitChange("?", f) : f \in {<<"a">>, <<"a", "/", "B">>}}

ChangeLists == UNION {[1..n -> GitChanges] : n \in 0..MaxChanges}

Min(a, b) == IF a <= b THEN a ELSE b

(***************************************************************************)
(* String.prototype.split('/'), replace(/\\/g, '/'), filter, localeCompare *)
(***************************************************************************)
HasSlash(s) == \E i \in 1..Len(s) : s[i] = Slash

FirstSlash(s) == CHOOSE i \in 1..Len(s) : s[i] = Slash /\ \A j \in 1..(i - 1) : s[j] # Slash

RECURSIVE Split(_)
Split(s) ==
    IF ~HasSlash(s)
    THEN <<s>>
    ELSE LET i == FirstSlash(s)
         IN  <<SubSeq(s, 1, i - 1)>> \o Split(SubSeq(s, i + 1, Len(s)))

NormalizeSeparators(s) == [i \in 1..Len(s) |-> IF s[i] = Backslash THEN Slash ELSE s[i]]

NonEmptyParts(parts) == SelectSeq(parts, LAMBDA p : Len(p) > 0)

\* Primary collation weight of the characters a node name can hold:
\* punctuation sorts before letters, and letters sort alphabetically
\* whatever their case ("a" before "B", the reverse of their code units).
CollationWeight(c) ==
    CASE c = "\\" -> 1
      [] c = "a"  -> 2
      [] c = "B"  -> 3
      [] c = "c"  -> 4
      [] OTHER    -> 0

RECURSIVE localeCompare(_, _)
localeCompare(s, t) ==
    IF Len(s) = 0 /\ Len(t) = 0 THEN 0
    ELSE IF Len(s) = 0 THEN -1
    ELSE IF Len(t) = 0 THEN 1
    ELSE IF CollationWeight(Head(s)) < CollationWeight(Head(t)) THEN -1
    ELSE IF CollationWeight(Head(s)) > CollationWeight(Head(t)) THEN 1
    ELSE localeCompare(Tail(s), Tail(t))

(***************************************************************************)
(* The node store shared by both variants: nodes in insertion order, each  *)
(* holding the paths of its children (the code holds references to the     *)
(* same objects, so a later write to a node is seen through its parent).   *)
(***************************************************************************)
HasNode(nodes, path) == \E i \in 1..Len(nodes) : nodes[i].path = path

NodeIndex(nodes, path) == CHOOSE i \in 1..Len(nodes) : nodes[i].path = path

GetNode(nodes, path) == nodes[NodeIndex(nodes, path)]

createNode(name, path, isDirectory) ==
    [name |-> name, path |-> path, isDirectory |-> isDirectory,
     children |-> <<>>, change |-> <<>>, isExpanded |-> TRUE]

JoinPath(currentPath, part) ==
    IF Len(currentPath) > 0 THEN currentPath \o <<Slash>> \o part ELSE part

PushChild(nodes, parentPath, childPath) ==
    LET i == NodeIndex(nodes, parentPath)
    IN  [nodes EXCEPT ![i].children = Append(@, childPath)]

\* A comparator that forgets the directories-first rule.
CompareNodesByNameOnly(a, b) == localeCompare(a.name, b.name)

\* sortTree's comparator.
CompareNodes(a, b) ==
    IF a.isDirectory /\ ~b.isDirectory THEN -1
    ELSE IF ~a.isDirectory /\ b.isDirectory THEN 1
    ELSE localeCompare(a.name, b.name)

\* Array.prototype.sort is stable: an element goes after every element it
\* does not precede.
RECURSIVE InsertSorted(_, _)
InsertSorted(sorted, n) ==
    IF sorted = <<>> THEN <<n>>
    ELSE IF CompareNodes(n, Head(sorted)) < 0 THEN <<n>> \o sorted
    ELSE <<Head(sorted)>> \o InsertSorted(Tail(sorted), n)

RECURSIVE SortNodes(_)
SortNodes(seq) ==
    IF seq = <<>> THEN <<>>
    ELSE InsertSorted(SortNodes(SubSeq(seq, 1, Len(seq) - 1)), seq[Len(seq)])

RECURSIVE sortTree(_, _)
sortTree(nodes, paths) ==
    LET sorted == SortNodes([i \in 1..Len(paths) |-> GetNode(nodes, paths[i])])
    IN  [i \in 1..Len(sorted) |->
            [sorted[i] EXCEPT !.children = sortTree(nodes, sorted[i].children)]]

(***************************************************************************)
(* buildFileTree, routes/_index.tsx: a plain object keyed by path          *)
(***************************************************************************)
IndexPart(st, part, isLastPart, change) ==
    LET previousPath == st.currentPath
        currentPath == JoinPath(previousPath, part)
        created ==
            IF ~HasNode(st.tree, currentPath)
            THEN Append(st.tree,
                        [createNode(part, currentPath, ~isLastPart)
                            EXCEPT !.change = IF isLastPart THEN <<change>> ELSE <<>>])
            ELSE st.tree
        linked ==
            IF Len(previousPath) > 0 /\ HasNode(created, previousPath)
            THEN IF \E i \in 1..Len(GetNode(created, previousPath).children) :
                        GetNode(created, previousPath).children[i] = currentPath
                 THEN created
                 ELSE PushChild(created, previousPath, currentPath)
            ELSE created
    IN  [tree |-> linked, currentPath |-> currentPath]

RECURSIVE IndexParts(_, _, _, _)
IndexParts(st, parts, index, change) ==
    IF index > Len(parts) THEN st
    ELSE IndexParts(IndexPart(st, parts[index], index = Len(parts), change),
                    parts, index + 1, change)

RECURSIVE IndexChanges(_, _, _)
IndexChanges(tree, list, k) ==
    IF k > Len(list) THEN tree
    ELSE IndexChanges(
            IndexParts([tree |-> tree, currentPath |-> <<>>],
                       Split(list[k].file), 1, list[k]).tree,
            list, k + 1)

\* node.path.substring(0, node.path.lastIndexOf('/'))
ParentPath(path) ==
    IF ~HasSlash(path) THEN <<>>
    ELSE LET j == CHOOSE i \in 1..Len(path) :
                    path[i] = Slash /\ \A m \in (i + 1)..Len(path) : path[m] # Slash
         IN  SubSeq(path, 1, j - 1)

IndexRootPaths(tree) ==
    LET isRoot(node) == Len(ParentPath(node.path)) = 0 \/ ~HasNode(tree, ParentPath(node.path))
        roots == SelectSeq(tree, isRoot)
    IN  [i \in 1..Len(roots) |-> roots[i].path]

buildFileTreeIndex(list) ==
    LET tree == IndexChanges(<<>>, list, 1)
    IN  sortTree(tree, IndexRootPaths(tree))

(***************************************************************************)
(* buildFileTree, path-map variant: a Map with an implicit root node,      *)
(* separators normalised, empty segments dropped, at most 50 changes       *)
(***************************************************************************)
ChangeLimit == 50

PathMapPart(st, part, isLastPart, change) ==
    LET parentPath == st.currentPath
        currentPath == JoinPath(parentPath, part)
    IN  IF ~HasNode(st.pathMap, currentPath)
        THEN LET node == [createNode(part, currentPath, ~isLastPart)
                            EXCEPT !.change = IF isLastPart THEN <<change>> ELSE <<>>]
                 added == Append(st.pathMap, node)
             IN  IF HasNode(added, parentPath)
                 THEN [pathMap |-> PushChild(added, parentPath, currentPath),
                       root |-> st.root, currentPath |-> currentPath]
                 ELSE [pathMap |-> added,
                       root |-> Append(st.root, currentPath), currentPath |-> currentPath]
        ELSE IF isLastPart
        THEN [pathMap |-> [st.pathMap EXCEPT
                              ![NodeIndex(st.pathMap, currentPath)].change = <<change>>],
              root |-> st.root, currentPath |-> currentPath]
        ELSE [st EXCEPT !.currentPath = currentPath]

RECURSIVE PathMapParts(_, _, _, _)
PathMapParts(st, parts, index, change) ==
    IF index > Len(parts) THEN st
    ELSE PathMapParts(PathMapPart(st, parts[index], index = Len(parts), change),
                      parts, index + 1, change)

RECURSIVE PathMapChanges(_, _, _)
PathMapChanges(st, limitedChanges, k) ==
    IF k > Len(limitedChanges) THEN st
    ELSE LET parts == NonEmptyParts(Split(NormalizeSeparators(limitedChanges[k].file)))
             next == IF Len(parts) = 0
                     THEN st
                     ELSE PathMapParts([st EXCEPT !.currentPath = <<>>],
                                       parts, 1, limitedChanges[k])
         IN  PathMapChanges(next, limitedChanges, k + 1)

buildFileTreePathMap(list) ==
    LET limitedChanges == SubSeq(list, 1, Min(ChangeLimit, Len(list)))
        built == PathMapChanges(
                    [pathMap |-> <<createNode(<<>>, <<>>, TRUE)>>,
                     root |-> <<>>, currentPath |-> <<>>],
                    limitedChanges, 1)
        finalNodes == IF Len(built.root) > 0
                      THEN built.root
                      ELSE GetNode(built.pathMap, <<>>).children
    IN  sortTree(built.pathMap, finalNodes)

buildFileTree(v, list) ==
    IF v = "index" THEN buildFileTreeIndex(list) ELSE buildFileTreePathMap(list)

(***************************************************************************)
(* The working-tree view: a change list arrives, a variant renders it      *)
(***************************************************************************)
NoSync ==
    /\ syncPc = "idle"
    /\ syncRepositoryType = "app"
    /\ syncCommits = <<>>
    /\ syncNext = 0
    /\ syncResponse = "none"
    /\ syncBase = 0

NoColour ==
    /\ calls = <<>>
    /\ background = {}

NoSheets ==
    /\ commitsSheet = <<>>
    /\ uniqueSheet = <<>>
    /\ uniqueFilesMap = <<>>
    /\ lastCall = "none"
    /\ returned = <<>>
    /\ failed = FALSE
    /\ commitData = <<>>
    /\ addedCommits = <<>>
    /\ NoSync
    /\ NoColour

NoStatus ==
    /\ statusOutput = <<>>
    /\ route = "none"
    /\ diffFails = {}
    /\ lineIndex = 0
    /\ lookups = <<>>
    /\ responded = FALSE

\* ActionData: every field is optional in the code; here `defined` tells
\* the value from undefined and `hasChanges` tells whether it has the field
\* changes (an empty list is a value too).
NoData ==
    [defined |-> FALSE, hasChanges |-> FALSE, changes |-> <<>>, gitPath |-> "",
     success |-> FALSE, operation |-> "", error |-> FALSE]

NoSubmission == [operation |-> "", selectedFiles |-> <<>>]

NoUi ==
    /\ actionData = NoData
    /\ fetcherData = NoData
    /\ fetcherSubmission = NoSubmission
    /\ selectedFiles = <<>>
    /\ optimisticChanges = <<>>
    /\ lastValidChanges = <<>>
    /\ isUnstaging = FALSE
    /\ expandedFolders = {}
    /\ latestResponse = "none"

InitTree ==
    /\ changes \in ChangeLists
    /\ variant = "none"
    /\ fileTree = <<>>
    /\ NoSheets
    /\ NoStatus
    /\ NoUi

RenderIndex ==
    /\ variant = "none"
    /\ variant' = "index"
    /\ fileTree' = buildFileTreeIndex(changes)
    /\ UNCHANGED <<changes, sheetVars, statusVars, uiVars>>

RenderPathMap ==
    /\ variant = "none"
    /\ variant' = "pathMap"
    /\ fileTree' = buildFileTreePathMap(changes)
    /\ UNCHANGED <<changes, sheetVars, statusVars, uiVars>>

NextTree == RenderIndex \/ RenderPathMap

SpecTree == InitTree /\ [][NextTree]_vars

(***************************************************************************)
(* Properties of the returned forest                                       *)
(***************************************************************************)
RECURSIVE NodesOf(_)
NodesOf(forest) ==
    UNION {{forest[i]} \cup NodesOf(forest[i].children) : i \in 1..Len(forest)}

\* The root list and every children list.
Levels(forest) == {forest} \cup {n.children : n \in NodesOf(forest)}

Permuted(list, p) == [i \in 1..Len(list) |-> list[p[i]]]

DistinctFiles(list) == {list[i].file : i \in 1..Len(list)}

\* A non-empty relative path: no empty segment between, before or after
\* its separators.
IsRelativePath(file) == \A i \in 1..Len(Split(file)) : Len(Split(file)[i]) > 0

WellFormed(list) == \A i \in 1..Len(list) : IsRelativePath(list[i].file)

NoFileTwice(list) == Cardinality(DistinctFiles(list)) = Len(list)

\* C1: building from any permutation of the change list returns the same
\* forest, in both variants.  Stated for the lists nobody disputes (every
\* file a non-empty relative path, no file twice), among them a path that is
\* a directory prefix of another.
C1_OrderIndependence ==
    variant # "none" /\ WellFormed(changes) /\ NoFileTwice(changes) =>
        \A p \in Permutations(1..Len(changes)) :
            buildFileTree(variant, Permuted(changes, p)) = fileTree

\* C2: the number of leaf nodes that carry a change equals the number of
\* distinct file values of the input (every file a non-empty relative path).
C2_LeafCount ==
    variant # "none" /\ WellFormed(changes) =>
        Cardinality({n \in NodesOf(fileTree) : n.children = <<>> /\ n.change # <<>>})
            = Cardinality(DistinctFiles(changes))

\* C3: in the root list and in every children list, directories precede
\* files and, within each group, names are in non-decreasing alphabetical
\* order.
C3_DirectoryFirst ==
    variant # "none" =>
        \A level \in Levels(fileTree) :
            \A i, j \in 1..Len(level) :
                i < j =>
                    /\ ~(~level[i].isDirectory /\ level[j].isDirectory)
                    /\ level[i].isDirectory = level[j].isDirectory
                          => localeCompare(level[i].name, level[j].name) <= 0

\* A rendered list that holds a directory and two files, built from a
\* change list that names a file before the directory.
C3_Witness ==
    /\ variant = "pathMap"
    /\ Len(changes) >= 3
    /\ ~changes[1].file = <<"B", "/", "a">>
    /\ Len(fileTree) = 3
    /\ fileTree[1].isDirectory /\ ~fileTree[2].isDirectory /\ ~fileTree[3].isDirectory
    /\ changes[1].file = fileTree[3].path

\* C4: no directory node carries a change, and every node that has a child
\* is a directory (every file a non-empty relative path).
C4_DirectoryShape ==
    variant # "none" /\ WellFormed(changes) =>
        \A n \in NodesOf(fileTree) :
            /\ n.isDirectory => n.change = <<>>
            /\ n.children # <<>> => n.isDirectory

IsDegenerate(file) == NonEmptyParts(Split(file)) = <<>>

\* C5: a record whose file has no non-empty segment contributes no node, so
\* no returned node has an empty name or an empty path, and an empty input
\* gives an empty forest.
C5_DegenerateSkipped ==
    variant # "none" =>
        /\ \A n \in NodesOf(fileTree) : n.name # <<>> /\ n.path # <<>>
        /\ (\A i \in 1..Len(changes) : IsDegenerate(changes[i].file)) => fileTree = <<>>

(***************************************************************************)
(* The Google Sheets store                                                 *)
(*                                                                         *)
(* A row is the eight cells A..H: hash, message, author, commit date,      *)
(* file, file type, repository, registration timestamp.  A cell the API    *)
(* leaves out of a row (a blank trailing cell) reads as undefined, which   *)
(* the code turns into '' with `row[i] || ''`; it is "" here.              *)
(***************************************************************************)
NoFiles == "(sin archivos)"
AppLabel == "Aplicación"
DbLabel == "Base de Datos"

CommitsHeaders ==
    <<"Hash del Commit", "Mensaje", "Autor", "Fecha del Commit",
      "Archivo Modificado", "Tipo de Archivo", "Repositorio", "Timestamp de Registro">>

UniqueHeaders ==
    <<"Archivo", "Tipo de Archivo", "Repositorio", "Último Commit Hash",
      "Último Commit Mensaje", "Último Commit Autor", "Última Fecha de Modificación",
      "Primera Fecha de Modificación", "Número de Commits que lo Tocaron">>

\* The spreadsheet is a document outside the program: it holds the rows
\* this service appended, rows an earlier version of it appended, and
\* rows edited by hand.  The bounded set of rows:
\*   hash, message, author: two rows of one hash may differ in message and author
CommitCells == {<<"h1", "m1", "a1">>, <<"h1", "m2", "a2">>, <<"h2", "m2", "a1">>}

\*   commit date: two instants, one of them written in two ways
DateCells == {"2024-01-01", "2024-02-01", "2024-02-01T00:00:00.000Z"}

\*   file, file type, repository
FileCells ==
    { <<"x.sql", "Archivo SQL (.sql)", AppLabel>>,
      <<"x.sql", "Archivo SQL (.sql)", "">>,
      <<"x.sql", "Archivo SQL (.sql)", "y|Aplicación">>,
      <<"x.sql|y", "App - Otro (.sql|y)", AppLabel>>,
      <<NoFiles, "N/A", AppLabel>>,
      <<"", "", AppLabel>> }

RegisteredAt == "2025-01-01T00:00:00.000Z"

\*   and one row whose date cell is blank
BlankDateRow ==
    <<"h2", "m2", "a1", "", "x.sql", "Archivo SQL (.sql)", AppLabel, RegisteredAt>>

StoredRows ==
    {<<c[1], c[2], c[3], d, f[1], f[2], f[3], RegisteredAt>> :
        c \in CommitCells, d \in DateCells, f \in FileCells}
        \cup {BlankDateRow}

StoredRowLists == UNION {[1..n -> StoredRows] : n \in 0..MaxRows}

\* s || d
OrElse(s, d) == IF s = "" THEN d ELSE s

\* values.get over 'Commits!A2:H': the rows below row 1.
RowsFromRow2(sheet) == SubSeq(sheet, 2, Len(sheet))

\* new Date(text).getTime(), in days since the epoch; NaN for any text that
\* is not a date.
NaN == -1

NewDate(text) ==
    CASE text = "2024-01-01" -> 19723
      [] text = "2024-02-01" -> 19754
      [] text = "2024-02-01T00:00:00.000Z" -> 19754
      [] OTHER -> NaN

\* a > b and a < b on Date objects: false as soon as one is invalid.
DateAfter(a, b) == NewDate(a) # NaN /\ NewDate(b) # NaN /\ NewDate(a) > NewDate(b)
DateBefore(a, b) == NewDate(a) # NaN /\ NewDate(b) # NaN /\ NewDate(a) < NewDate(b)

\* A test that forgets the placeholder of a commit without files.
IsNotBlank(file) == file # ""

\* file && file !== '(sin archivos)'
IsFileCell(file) == file # "" /\ file # NoFiles

(***************************************************************************)
(* getCommits: group the rows by hash                                      *)
(***************************************************************************)
HasCommit(commitsMap, hash) == \E i \in 1..Len(commitsMap) : commitsMap[i].hash = hash

CommitIndex(commitsMap, hash) == CHOOSE i \in 1..Len(commitsMap) : commitsMap[i].hash = hash

\* A grouping that forgets the file of the row that opens a commit.
GroupRowLosingFirstFile(commitsMap, row) ==
    IF HasCommit(commitsMap, OrElse(row[1], ""))
    THEN IF IsFileCell(OrElse(row[5], ""))
         THEN [commitsMap EXCEPT
                  ![CommitIndex(commitsMap, OrElse(row[1], ""))].files = Append(@, row[5])]
         ELSE commitsMap
    ELSE Append(commitsMap,
                [hash |-> OrElse(row[1], ""), message |-> OrElse(row[2], ""),
                 author |-> OrElse(row[3], ""), date |-> OrElse(row[4], ""),
                 files |-> <<>>,
                 repositoryType |-> IF OrElse(row[7], AppLabel) = DbLabel THEN "bd" ELSE "app"])

GroupRow(commitsMap, row) ==
    LET hash == OrElse(row[1], "")
        message == OrElse(row[2], "")
        author == OrElse(row[3], "")
        date == OrElse(row[4], "")
        file == OrElse(row[5], "")
        repositoryTypeText == OrElse(row[7], AppLabel)
        repositoryType == IF repositoryTypeText = DbLabel THEN "bd" ELSE "app"
    IN  IF HasCommit(commitsMap, hash)
        THEN IF IsFileCell(file)
             THEN [commitsMap EXCEPT ![CommitIndex(commitsMap, hash)].files = Append(@, file)]
             ELSE commitsMap
        ELSE Append(commitsMap,
                    [hash |-> hash, message |-> message, author |-> author, date |-> date,
                     files |-> IF IsFileCell(file) THEN <<file>> ELSE <<>>,
                     repositoryType |-> repositoryType])

RECURSIVE GroupRows(_, _, _)
GroupRows(commitsMap, rows, k) ==
    IF k > Len(rows) THEN commitsMap
    ELSE GroupRows(GroupRow(commitsMap, rows[k]), rows, k + 1)

getCommits ==
    /\ lastCall' = "getCommits"
    /\ returned' = IF RowsFromRow2(commitsSheet) = <<>>
                   THEN <<>>
                   ELSE GroupRows(<<>>, RowsFromRow2(commitsSheet), 1)
    /\ failed' = FALSE
    /\ UNCHANGED <<commitsSheet, uniqueSheet, uniqueFilesMap, commitData, addedCommits,
                   syncVars, colourVars, treeVars, statusVars, uiVars>>

(***************************************************************************)
(* createUniqueFilesSheet: group the rows by file and repository           *)
(***************************************************************************)
\* A key that tells files apart by their path alone.
FileKeyByFileOnly(file, repositoryType) == file

FileKey(file, repositoryType) == file \o "|" \o repositoryType

HasKey(map, fileKey) == \E i \in 1..Len(map) : map[i].fileKey = fileKey

KeyIndex(map, fileKey) == CHOOSE i \in 1..Len(map) : map[i].fileKey = fileKey

\* An update that trusts the rows to be in chronological order: the row
\* at hand is the last commit, the first date stays.
UpdateExistingInRowOrder(existing, hash, message, author, date) ==
    [existing EXCEPT !.lastCommitHash = hash,
                     !.lastCommitMessage = message,
                     !.lastCommitAuthor = author,
                     !.lastCommitDate = date,
                     !.commitCount = @ + 1]

\* The update of an entry already in the map, in the order of the code.
UpdateExisting(existing, hash, message, author, date) ==
    LET newer == DateAfter(date, existing.lastCommitDate)
        last == IF newer
                THEN [existing EXCEPT !.lastCommitHash = hash,
                                      !.lastCommitMessage = message,
                                      !.lastCommitAuthor = author,
                                      !.lastCommitDate = date]
                ELSE existing
        counted == [last EXCEPT !.commitCount = @ + 1]
    IN  IF DateBefore(date, counted.firstCommitDate)
        THEN [counted EXCEPT !.firstCommitDate = date]
        ELSE counted

UniqueFileRow(map, row) ==
    LET hash == OrElse(row[1], "")
        message == OrElse(row[2], "")
        author == OrElse(row[3], "")
        date == OrElse(row[4], "")
        file == OrElse(row[5], "")
        fileType == OrElse(row[6], "")
        repositoryType == OrElse(row[7], AppLabel)
        fileKey == FileKey(file, repositoryType)
    IN  IF ~IsFileCell(file) THEN map
        ELSE IF HasKey(map, fileKey)
        THEN [map EXCEPT ![KeyIndex(map, fileKey)] =
                            UpdateExisting(@, hash, message, author, date)]
        ELSE Append(map,
                    [fileKey |-> fileKey, file |-> file, fileType |-> fileType,
                     repositoryType |-> repositoryType,
                     lastCommitHash |-> hash, lastCommitMessage |-> message,
                     lastCommitAuthor |-> author, lastCommitDate |-> date,
                     commitCount |-> 1, firstCommitDate |-> date])

RECURSIVE UniqueFileRows(_, _, _)
UniqueFileRows(map, rows, k) ==
    IF k > Len(rows) THEN map
    ELSE UniqueFileRows(UniqueFileRow(map, rows[k]), rows, k + 1)

\* String.prototype.localeCompare on the cells the report sorts by: the
\* position of a text in the alphabetical order of the bounded cell set.
CellOrder(text) ==
    CASE text = "" -> 0
      [] text = AppLabel -> 1
      [] text = DbLabel -> 2
      [] text = "x.sql" -> 3
      [] text = "x.sql|y" -> 4
      [] text = "y|Aplicación" -> 5
      [] OTHER -> 6

CompareCells(a, b) ==
    IF CellOrder(a) < CellOrder(b) THEN -1
    ELSE IF CellOrder(a) > CellOrder(b) THEN 1
    ELSE 0

\* A comparator that forgets the repository.
CompareFilesByFileOnly(a, b) == CompareCells(a.file, b.file)

CompareFiles(a, b) ==
    IF a.repositoryType # b.repositoryType
    THEN CompareCells(a.repositoryType, b.repositoryType)
    ELSE CompareCells(a.file, b.file)

RECURSIVE InsertSortedFile(_, _)
InsertSortedFile(sorted, f) ==
    IF sorted = <<>> THEN <<f>>
    ELSE IF CompareFiles(f, Head(sorted)) < 0 THEN <<f>> \o sorted
    ELSE <<Head(sorted)>> \o InsertSortedFile(Tail(sorted), f)

RECURSIVE SortFiles(_)
SortFiles(seq) ==
    IF seq = <<>> THEN <<>>
    ELSE InsertSortedFile(SortFiles(SubSeq(seq, 1, Len(seq) - 1)), seq[Len(seq)])

UniqueSheetRow(fileInfo) ==
    <<fileInfo.file, fileInfo.fileType, fileInfo.repositoryType,
      fileInfo.lastCommitHash, fileInfo.lastCommitMessage, fileInfo.lastCommitAuthor,
      fileInfo.lastCommitDate, fileInfo.firstCommitDate, ToString(fileInfo.commitCount)>>

UniqueSheetValues(map) ==
    LET sortedFiles == SortFiles(map)
    IN  <<UniqueHeaders>> \o [i \in 1..Len(sortedFiles) |-> UniqueSheetRow(sortedFiles[i])]

\* values.clear over 'Archivos Únicos!A:I': no cell of the sheet keeps a value.
ClearValues(sheet) == <<>>

\* values.update over 'Archivos Únicos!A1:I{values.length}': the rows of the
\* range take the values, the rows below it stay as they are.
UpdateValues(sheet, values) == values \o SubSeq(sheet, Len(values) + 1, Len(sheet))

createUniqueFilesSheet ==
    /\ lastCall' = "createUniqueFilesSheet"
    /\ returned' = <<>>
    /\ \/ \* response.data.values is undefined: no row below row 1
          /\ RowsFromRow2(commitsSheet) = <<>>
          /\ failed' = TRUE
          /\ UNCHANGED <<uniqueSheet, uniqueFilesMap>>
       \/ /\ RowsFromRow2(commitsSheet) # <<>>
          /\ failed' = FALSE
          /\ uniqueFilesMap' = UniqueFileRows(<<>>, RowsFromRow2(commitsSheet), 1)
          /\ uniqueSheet' = UpdateValues(ClearValues(uniqueSheet),
                                         UniqueSheetValues(uniqueFilesMap'))
    /\ UNCHANGED <<commitsSheet, commitData, addedCommits, syncVars, colourVars,
                   treeVars, statusVars, uiVars>>

NoTree ==
    /\ changes = <<>>
    /\ variant = "none"
    /\ fileTree = <<>>

\* An initialised "Commits" sheet holding any rows of the bounded set.
InitSheet ==
    /\ \E rows \in StoredRowLists : commitsSheet = <<CommitsHeaders>> \o rows
    /\ uniqueSheet = <<>>
    /\ uniqueFilesMap = <<>>
    /\ lastCall = "none"
    /\ returned = <<>>
    /\ failed = FALSE
    /\ commitData = <<>>
    /\ addedCommits = <<>>
    /\ NoSync
    /\ NoColour
    /\ NoTree
    /\ NoStatus
    /\ NoUi

NextSheet == getCommits \/ createUniqueFilesSheet

SpecSheet == InitSheet /\ [][NextSheet]_vars

(***************************************************************************)
(* Properties of the two aggregations                                      *)
(***************************************************************************)
DataRows == RowsFromRow2(commitsSheet)

IsNotPlaceholder(file) == file # NoFiles

IsNotPlaceholderNorBlank(file) == file # NoFiles /\ file # ""

Reported == lastCall = "createUniqueFilesSheet" /\ ~failed

Listed == lastCall = "getCommits" /\ ~failed

\* The rows of a (file, repository) pair, by position.
RowsOfPair(rows, file, repository) ==
    {k \in 1..Len(rows) : rows[k][5] = file /\ rows[k][7] = repository}

FilePairs(rows) ==
    {<<rows[k][5], rows[k][7]>> :
        k \in {i \in 1..Len(rows) : IsNotPlaceholderNorBlank(rows[i][5])}}

NoBlankRepository(rows) == \A k \in 1..Len(rows) : rows[k][7] # ""

AllDatesValid(rows) == \A k \in 1..Len(rows) : NewDate(rows[k][4]) # NaN

\* C6: every record's commitCount is the number of rows with the record's
\* (file, repository) pair, and every pair has exactly one record.  Stated
\* for rows whose repository cell is not blank.
C6_CommitCount ==
    Reported /\ NoBlankRepository(DataRows) =>
        /\ \A i \in 1..Len(uniqueFilesMap) :
              uniqueFilesMap[i].commitCount =
                  Cardinality(RowsOfPair(DataRows, uniqueFilesMap[i].file,
                                         uniqueFilesMap[i].repositoryType))
        /\ \A pair \in FilePairs(DataRows) :
              Cardinality({i \in 1..Len(uniqueFilesMap) :
                              <<uniqueFilesMap[i].file, uniqueFilesMap[i].repositoryType>> = pair}) = 1

\* C7: when every source date is a valid timestamp, after any prefix of the
\* rows every record of the map has firstCommitDate <= lastCommitDate.
C7_DateBounds ==
    Reported /\ AllDatesValid(DataRows) =>
        /\ uniqueFilesMap = UniqueFileRows(<<>>, DataRows, 1)
        /\ \A k \in 0..Len(DataRows) :
              LET map == UniqueFileRows(<<>>, SubSeq(DataRows, 1, k), 1)
              IN  \A i \in 1..Len(map) :
                      NewDate(map[i].firstCommitDate) <= NewDate(map[i].lastCommitDate)

\* A report over two rows of one file, the later commit stored first.
C7_Witness ==
    /\ Reported
    /\ Len(DataRows) = 2
    /\ Len(uniqueFilesMap) = 1
    /\ uniqueFilesMap[1].commitCount = 2
    /\ NewDate(DataRows[1][4]) > NewDate(DataRows[2][4])
    /\ uniqueFilesMap[1].firstCommitDate = DataRows[2][4]

\* The earliest of the rows in K whose date no row of K exceeds.
LatestRow(rows, K) ==
    CHOOSE k \in K :
        /\ \A m \in K : NewDate(rows[m][4]) <= NewDate(rows[k][4])
        /\ \A m \in K : NewDate(rows[m][4]) = NewDate(rows[k][4]) => k <= m

\* C8: for every (file, repository) pair the record's last commit is the
\* row of the pair with the greatest date, the earliest such row on a tie,
\* and its first date is the least date of the pair's rows, whatever the
\* order of the rows.  Stated for valid dates and non-blank repository cells.
C8_LastAndFirst ==
    Reported /\ AllDatesValid(DataRows) /\ NoBlankRepository(DataRows) =>
        \A i \in 1..Len(uniqueFilesMap) :
            LET rec == uniqueFilesMap[i]
                K == RowsOfPair(DataRows, rec.file, rec.repositoryType)
            IN  /\ K # {}
                /\ rec.lastCommitHash = DataRows[LatestRow(DataRows, K)][1]
                /\ rec.lastCommitMessage = DataRows[LatestRow(DataRows, K)][2]
                /\ rec.lastCommitAuthor = DataRows[LatestRow(DataRows, K)][3]
                /\ rec.lastCommitDate = DataRows[LatestRow(DataRows, K)][4]
                /\ \A m \in K : NewDate(rec.firstCommitDate) <= NewDate(DataRows[m][4])
                /\ \E m \in K : rec.firstCommitDate = DataRows[m][4]

\* C9: a row whose file is the placeholder or blank gives no record of the
\* report and no entry of any files list, and its commit is still listed.
C9_SentinelExclusion ==
    /\ Reported =>
          \A i \in 1..Len(uniqueFilesMap) : IsNotPlaceholderNorBlank(uniqueFilesMap[i].file)
    /\ Reported =>
          \A i \in 2..Len(uniqueSheet) : uniqueSheet[i][1] # NoFiles /\ uniqueSheet[i][1] # ""
    /\ Listed =>
          /\ \A i \in 1..Len(returned) :
                /\ \A j \in 1..Len(returned[i].files) :
                      returned[i].files[j] # NoFiles /\ returned[i].files[j] # ""
                /\ Len(returned[i].files) =
                      Cardinality({k \in 1..Len(DataRows) :
                                      /\ DataRows[k][1] = returned[i].hash
                                      /\ DataRows[k][5] # NoFiles
                                      /\ DataRows[k][5] # ""})
          /\ \A k \in 1..Len(DataRows) :
                \E i \in 1..Len(returned) : returned[i].hash = DataRows[k][1]

\* The commits are listed after a report was made, from a sheet that holds a
\* placeholder row: its commit is listed without files, the other row's file
\* is in the report.
C9_Witness ==
    /\ Listed
    /\ uniqueSheet # <<>>
    /\ Len(uniqueFilesMap) = 1
    /\ Len(DataRows) = 2
    /\ DataRows[1][5] = NoFiles
    /\ Len(returned) = 2
    /\ returned[1].files = <<>>
    /\ returned[2].files = <<DataRows[2][5]>>

\* The hashes of the rows in the order of their first appearance.
RECURSIVE FirstAppearances(_, _)
FirstAppearances(rows, k) ==
    IF k > Len(rows) THEN <<>>
    ELSE IF \E m \in 1..(k - 1) : rows[m][1] = rows[k][1]
    THEN FirstAppearances(rows, k + 1)
    ELSE <<rows[k][1]>> \o FirstAppearances(rows, k + 1)

FirstRowOf(rows, hash) ==
    rows[CHOOSE k \in 1..Len(rows) :
            rows[k][1] = hash /\ \A m \in 1..(k - 1) : rows[m][1] # hash]

\* The file cells of the rows of a hash, in row order, that Keep accepts.
FileCellsOf(rows, hash, Keep(_)) ==
    LET kept == SelectSeq(rows, LAMBDA r : r[1] = hash /\ Keep(r[5]))
    IN  [i \in 1..Len(kept) |-> kept[i][5]]

Grouping(Keep(_)) ==
    Listed =>
        /\ [i \in 1..Len(returned) |-> returned[i].hash] = FirstAppearances(DataRows, 1)
        /\ \A i \in 1..Len(returned) :
              /\ returned[i].files = FileCellsOf(DataRows, returned[i].hash, Keep)
              /\ returned[i].message = FirstRowOf(DataRows, returned[i].hash)[2]
              /\ returned[i].author = FirstRowOf(DataRows, returned[i].hash)[3]
              /\ returned[i].date = FirstRowOf(DataRows, returned[i].hash)[4]

\* C10 as stated: one entry per distinct hash in order of first appearance,
\* its files the file values other than the placeholder of the rows of the
\* hash in row order, its message, author and date those of the first row.
C10_GroupingAsStated == Grouping(IsNotPlaceholder)

\* C10 as amended: the files are the file values that are neither the
\* placeholder nor blank.
C10_Grouping == Grouping(IsNotPlaceholderNorBlank)

\* Two rows of one hash that differ in message, both with a file.
C10_Witness ==
    /\ Listed
    /\ Len(DataRows) = 2
    /\ DataRows[1][1] = DataRows[2][1]
    /\ DataRows[1][2] # DataRows[2][2]
    /\ Len(returned) = 1
    /\ Len(returned[1].files) = 2
    /\ returned[1].message = DataRows[1][2]

\* C11: the rows written after the header are the records of the map, in
\* non-decreasing order of repository and, within one repository, of file.
C11_ReportOrder ==
    Reported =>
        /\ uniqueSheet[1] = UniqueHeaders
        /\ Len(uniqueSheet) = Len(uniqueFilesMap) + 1
        /\ \A i \in 1..Len(uniqueFilesMap) :
              \E k \in 2..Len(uniqueSheet) : uniqueSheet[k] = UniqueSheetRow(uniqueFilesMap[i])
        /\ \A i, j \in 2..Len(uniqueSheet) :
              i < j =>
                  /\ CellOrder(uniqueSheet[i][3]) <= CellOrder(uniqueSheet[j][3])
                  /\ uniqueSheet[i][3] = uniqueSheet[j][3]
                        => CellOrder(uniqueSheet[i][1]) <= CellOrder(uniqueSheet[j][1])

\* A report of two records whose order in the sheet is the reverse of their
\* order in the map: the repository of the second sorts first.
C11_Witness ==
    /\ Reported
    /\ Len(uniqueFilesMap) = 2
    /\ Len(uniqueSheet) = 3
    /\ uniqueFilesMap[1].repositoryType # uniqueFilesMap[2].repositoryType
    /\ uniqueSheet[2] = UniqueSheetRow(uniqueFilesMap[2])
    /\ uniqueSheet[3] = UniqueSheetRow(uniqueFilesMap[1])

\* C12: over a Commits sheet without data rows, getCommits returns the empty
\* list and createUniqueFilesSheet completes and writes a report of the
\* header alone.
C12_EmptyDataset ==
    DataRows = <<>> =>
        /\ lastCall = "getCommits" => ~failed /\ returned = <<>>
        /\ lastCall = "createUniqueFilesSheet" => ~failed /\ uniqueSheet = <<UniqueHeaders>>

\* The forest of an empty change list is empty, in both variants.
EmptyForest == variant # "none" /\ changes = <<>> => fileTree = <<>>

(***************************************************************************)
(* The status action: `git status --porcelain` parsed into GitChange[]     *)
(*                                                                         *)
(* The action exists three times: in routes/_index.tsx and in the route    *)
(* variants part_003 and part_004.  The output and its lines are           *)
(* sequences of one-character strings.                                     *)
(***************************************************************************)
MaxLines == 2

Newline == "\n"

\* The lines of the bounded output set.
StatusLines ==
    { <<" ", "M", " ", "a">>,               \* modified in the working tree
      <<"M", " ", " ", "a">>,               \* staged
      <<"M", "M", " ", "a", "/", "B">>,     \* staged, and modified again
      <<"?", "?", " ", "a">>,               \* untracked
      <<"?", "?", " ", "B">>,
      <<"?", "M", " ", "a">>,               \* unknown index character
      <<"?", " ", " ", "a">>,
      <<" ", "?", " ", "a">>,               \* nothing to report
      <<"M", " ", "a", "B">>,               \* one status character, no blank at position 2
      <<"M", "a">> }                        \* too short

RECURSIVE JoinLines(_)
JoinLines(lines) ==
    IF lines = <<>> THEN <<>>
    ELSE Head(lines) \o <<Newline>> \o JoinLines(Tail(lines))

\* git ends every line of its output with a newline.
StatusOutputs == {JoinLines(lines) : lines \in UNION {[1..n -> StatusLines] : n \in 0..MaxLines}}

\* The files for which a diff lookup can fail.
LookupFiles == {<<"a">>, <<"a", "/", "B">>}

IsWhitespace(c) == c \in {" ", "\n", "\t"}

RECURSIVE trimStart(_)
trimStart(s) == IF s # <<>> /\ IsWhitespace(Head(s)) THEN trimStart(Tail(s)) ELSE s

RECURSIVE trimEnd(_)
trimEnd(s) ==
    IF s # <<>> /\ IsWhitespace(s[Len(s)]) THEN trimEnd(SubSeq(s, 1, Len(s) - 1)) ELSE s

trim(s) == trimEnd(trimStart(s))

\* Positions count from 0, as in the code.
charAt(s, i) == IF i < Len(s) THEN s[i + 1] ELSE ""

substring(s, i) == SubSeq(s, i + 1, Len(s))

HasNewline(s) == \E i \in 1..Len(s) : s[i] = Newline

FirstNewline(s) ==
    CHOOSE i \in 1..Len(s) : s[i] = Newline /\ \A j \in 1..(i - 1) : s[j] # Newline

\* split('\n')
RECURSIVE SplitLines(_)
SplitLines(s) ==
    IF ~HasNewline(s)
    THEN <<s>>
    ELSE LET i == FirstNewline(s)
         IN  <<SubSeq(s, 1, i - 1)>> \o SplitLines(SubSeq(s, i + 1, Len(s)))

\* routes/_index.tsx: statusOutput.split('\n').filter((line) => line.length > 0)
LinesIndex(output) ==
    IF trim(output) = <<>> THEN <<>>
    ELSE SelectSeq(SplitLines(output), LAMBDA line : Len(line) > 0)

\* part_003, part_004: statusOutput.trim().split('\n')
LinesPart(output) ==
    IF trim(output) = <<>> THEN <<>>
    ELSE SplitLines(trim(output))

LinesOf(r, output) == IF r = "index" THEN LinesIndex(output) ELSE LinesPart(output)

IsUntracked(indexStatus, workingStatus) == indexStatus = "?" /\ workingStatus = "?"

IsStagedIndex(indexStatus, workingStatus) ==
    ~IsUntracked(indexStatus, workingStatus) /\ indexStatus # " " /\ indexStatus # "?"

IsStagedPart(indexStatus, workingStatus) ==
    ~IsUntracked(indexStatus, workingStatus) /\ indexStatus # " "

IsStaged(r, indexStatus, workingStatus) ==
    IF r = "index" THEN IsStagedIndex(indexStatus, workingStatus)
    ELSE IsStagedPart(indexStatus, workingStatus)

\* A test that takes the unknown character for a change.
HasWorkingChangesOrUnknown(workingStatus) == workingStatus # " "

HasWorkingChanges(workingStatus) == workingStatus # " " /\ workingStatus # "?"

FileIndex(line) == trim(substring(line, 3))

FilePart(line) ==
    IF charAt(line, 2) = " " THEN trim(substring(line, 3)) ELSE trim(substring(line, 2))

FileOf(r, line) == IF r = "index" THEN FileIndex(line) ELSE FilePart(line)

\* stdout of `git diff [--cached] --numstat "file"` after trim().split('\t'):
\* added, deleted, path; "-" for a binary file; nothing when git prints nothing.
DiffStat(file, cached) ==
    IF file = <<"a", "/", "B">> THEN <<"-", "-", "path">>
    ELSE IF file = <<"B">> THEN <<>>
    ELSE IF cached THEN <<"3", "1", "path">>
    ELSE <<"1", "2", "path">>

parseInt(text) ==
    CASE text = "0" -> 0
      [] text = "1" -> 1
      [] text = "2" -> 2
      [] text = "3" -> 3
      [] OTHER -> NaN

\* n || 0
OrZero(n) == IF n = NaN THEN 0 ELSE n

\* [additions, deletions] of a lookup that did not fail.
Counts(diffStat) ==
    IF diffStat = <<>> THEN <<0, 0>>
    ELSE <<OrZero(parseInt(diffStat[1])), OrZero(parseInt(diffStat[2]))>>

ChangeWithCounts(status, file, counts, isStaged, isUntracked) ==
    [status |-> status, file |-> file, additions |-> counts[1], deletions |-> counts[2],
     isStaged |-> isStaged, isUntracked |-> isUntracked]

\* A catch branch that reports no lines changed.
ChangeWithZeroCounts(status, file, isStaged, isUntracked) ==
    [status |-> status, file |-> file, additions |-> 0, deletions |-> 0,
     isStaged |-> isStaged, isUntracked |-> isUntracked]

ChangeWithoutCounts(status, file, isStaged, isUntracked) ==
    [status |-> status, file |-> file, isStaged |-> isStaged, isUntracked |-> isUntracked]

\* The body of the loop over the lines: no record or one.
ParseLine(r, line, fails) ==
    IF Len(line) < 3 THEN <<>>
    ELSE LET indexStatus == charAt(line, 0)
             workingStatus == charAt(line, 1)
             file == FileOf(r, line)
             isUntracked == IsUntracked(indexStatus, workingStatus)
             isStaged == IsStaged(r, indexStatus, workingStatus)
             hasWorkingChanges == HasWorkingChanges(workingStatus)
             status == IF isStaged THEN indexStatus ELSE workingStatus
         IN  IF ~(isStaged \/ hasWorkingChanges \/ isUntracked) THEN <<>>
             ELSE IF isStaged
             THEN IF file \in fails
                  THEN <<ChangeWithoutCounts(status, file, isStaged, isUntracked)>>
                  ELSE <<ChangeWithCounts(status, file, Counts(DiffStat(file, TRUE)),
                                          isStaged, isUntracked)>>
             ELSE IF hasWorkingChanges /\ ~isUntracked
             THEN IF file \in fails
                  THEN <<ChangeWithoutCounts(status, file, isStaged, isUntracked)>>
                  ELSE <<ChangeWithCounts(status, file, Counts(DiffStat(file, FALSE)),
                                          isStaged, isUntracked)>>
             ELSE <<ChangeWithCounts(status, file, <<0, 0>>, isStaged, isUntracked)>>

RECURSIVE ParseLines(_, _, _)
ParseLines(r, lines, fails) ==
    IF lines = <<>> THEN <<>>
    ELSE ParseLine(r, Head(lines), fails) \o ParseLines(r, Tail(lines), fails)

statusAction(r, output, fails) == ParseLines(r, LinesOf(r, output), fails)

InitStatus ==
    /\ statusOutput \in StatusOutputs
    /\ diffFails \in SUBSET LookupFiles
    /\ route = "none"
    /\ lineIndex = 0
    /\ lookups = <<>>
    /\ responded = FALSE
    /\ NoTree
    /\ NoSheets
    /\ NoUi

StatusIndex ==
    /\ route = "none"
    /\ route' = "index"
    /\ changes' = statusAction("index", statusOutput, diffFails)
    /\ UNCHANGED <<statusOutput, diffFails, lineIndex, lookups, responded,
                   variant, fileTree, sheetVars, uiVars>>

StatusPart003 ==
    /\ route = "none"
    /\ route' = "part_003"
    /\ changes' = statusAction("part_003", statusOutput, diffFails)
    /\ UNCHANGED <<statusOutput, diffFails, lineIndex, lookups, responded,
                   variant, fileTree, sheetVars, uiVars>>

StatusPart004 ==
    /\ route = "none"
    /\ route' = "part_004"
    /\ changes' = statusAction("part_004", statusOutput, diffFails)
    /\ UNCHANGED <<statusOutput, diffFails, lineIndex, lookups, responded,
                   variant, fileTree, sheetVars, uiVars>>

NextStatus == StatusIndex \/ StatusPart003 \/ StatusPart004

SpecStatus == InitStatus /\ [][NextStatus]_vars

(***************************************************************************)
(* Properties of the status action                                         *)
(***************************************************************************)
Parsed == route # "none"

\* The lines git printed.
OriginalLines == SelectSeq(SplitLines(statusOutput), LAMBDA line : Len(line) > 0)

\* The records of the i-th line, parsed from the characters git printed.
RecordsOf(i) == ParseLine(route, OriginalLines[i], diffFails)

\* An output whose first line has an index character.
NoLeadingBlank == statusOutput = <<>> \/ ~IsWhitespace(statusOutput[1])

UntrackedLine(line) == line[1] = "?" /\ line[2] = "?"

StagedLine(line) == ~UntrackedLine(line) /\ line[1] # " " /\ line[1] # "?"

WorkingLine(line) == line[2] # " " /\ line[2] # "?"

Reportable(line) ==
    Len(line) >= 3 /\ (StagedLine(line) \/ WorkingLine(line) \/ UntrackedLine(line))

HasCounts(r) == "additions" \in DOMAIN r \/ "deletions" \in DOMAIN r

\* The record is one for which the action runs a diff.
LookupMade(r) == r.isStaged \/ (~r.isUntracked /\ r.status # " " /\ r.status # "?")

\* C13: every record of a line with index character X and worktree character
\* Y has isUntracked iff X = Y = '?', isStaged iff it is not untracked and X
\* is neither blank nor '?', and status X when staged, Y otherwise; in all
\* three copies of the action.  Stated for outputs whose first line has an
\* index character.
C13_Classification ==
    Parsed /\ NoLeadingBlank =>
        /\ changes = ParseLines(route, OriginalLines, diffFails)
        /\ \A i \in 1..Len(OriginalLines) :
              \A k \in 1..Len(RecordsOf(i)) :
                  LET r == RecordsOf(i)[k]
                      line == OriginalLines[i]
                  IN  /\ r.isUntracked = UntrackedLine(line)
                      /\ r.isStaged = StagedLine(line)
                      /\ r.status = IF r.isStaged THEN line[1] ELSE line[2]

\* C14: the file of every record is the trimmed rest of its line after three
\* characters when the character at position 2 is a blank, after two
\* characters when it is not; in all copies of the action.  Stated for
\* outputs whose first line has an index character.
C14_FileExtraction ==
    Parsed /\ NoLeadingBlank =>
        /\ changes = ParseLines(route, OriginalLines, diffFails)
        /\ \A i \in 1..Len(OriginalLines) :
              \A k \in 1..Len(RecordsOf(i)) :
                  LET line == OriginalLines[i]
                  IN  RecordsOf(i)[k].file =
                          IF line[3] = " " THEN trim(SubSeq(line, 4, Len(line)))
                          ELSE trim(SubSeq(line, 3, Len(line)))

\* C15: in the status action of routes/_index.tsx a line shorter than three
\* characters, or neither staged nor changed in the working tree nor
\* untracked, gives no record; every other line gives exactly one; the
\* records are in the order of their lines.
C15_SkipRules ==
    route = "index" =>
        /\ changes = ParseLines(route, OriginalLines, diffFails)
        /\ \A i \in 1..Len(OriginalLines) :
              Len(RecordsOf(i)) = IF Reportable(OriginalLines[i]) THEN 1 ELSE 0

\* A line with nothing to report followed by a line that gives a record.
C15_Witness ==
    /\ route = "index"
    /\ Len(OriginalLines) = 2
    /\ Len(OriginalLines[1]) >= 3
    /\ ~Reportable(OriginalLines[1])
    /\ Len(changes) = 1
    /\ changes[1].file = FileIndex(OriginalLines[2])

\* C16: whatever set of files fails its diff, the action returns as many
\* records as when none fails; the record of a line whose diff failed
\* carries no counts and is otherwise the same; every other record is the
\* same.
C16_LookupFailure ==
    Parsed =>
        LET base == statusAction(route, statusOutput, {})
        IN  /\ Len(changes) = Len(base)
            /\ \A k \in 1..Len(base) :
                  IF LookupMade(base[k]) /\ base[k].file \in diffFails
                  THEN /\ ~HasCounts(changes[k])
                       /\ changes[k].status = base[k].status
                       /\ changes[k].file = base[k].file
                       /\ changes[k].isStaged = base[k].isStaged
                       /\ changes[k].isUntracked = base[k].isUntracked
                  ELSE changes[k] = base[k]

\* Two records, the diff of the first failed, the second carries its counts.
C16_Witness ==
    /\ Parsed
    /\ diffFails # {}
    /\ Len(changes) = 2
    /\ ~HasCounts(changes[1])
    /\ HasCounts(changes[2])
    /\ changes[2].additions > 0

\* C17: a record carries counts only when a diff was run for it; the record
\* of an untracked file, for which none is run, carries none.
C17_CountPresence ==
    Parsed =>
        \A k \in 1..Len(changes) :
            /\ HasCounts(changes[k]) => LookupMade(changes[k])
            /\ changes[k].isUntracked => ~HasCounts(changes[k])

\* A line as git prints it: two status characters, a blank, the path.
IsPorcelainLine(line) ==
    /\ Len(line) >= 4
    /\ line[3] = " "
    /\ <<line[1], line[2]>> \in {<<" ", "M">>, <<"M", " ">>, <<"M", "M">>, <<"?", "?">>}

\* C20: every line of the output, the first one included, is parsed from
\* the characters git printed; in all three copies of the action.  Stated
\* for the outputs git prints.
C20_PositionIndependence ==
    Parsed /\ (\A i \in 1..Len(OriginalLines) : IsPorcelainLine(OriginalLines[i])) =>
        changes = ParseLines(route, OriginalLines, diffFails)

(***************************************************************************)
(* The loop of the status action, one await at a time                      *)
(*                                                                         *)
(* Each `git diff --numstat` is a child process the loop awaits before it  *)
(* goes on: the loop is suspended while the process runs, and resumes in   *)
(* the try block when it exits with 0, in the catch block otherwise.       *)
(***************************************************************************)
Routes == {"index", "part_003", "part_004"}

\* The lines the loop iterates over.
LoopLines == LinesOf(route, statusOutput)

\* The line the loop is at.
CurrentLine == LoopLines[lineIndex + 1]

\* if (isStaged || hasWorkingChanges || isUntracked)
HasChangesToReport(r, line) ==
    \/ IsStaged(r, charAt(line, 0), charAt(line, 1))
    \/ HasWorkingChanges(charAt(line, 1))
    \/ IsUntracked(charAt(line, 0), charAt(line, 1))

\* A loop that runs a diff for every line it reports.
NeedsLookupForEveryRecord(isStaged, hasWorkingChanges, isUntracked) == TRUE

\* if (isStaged) { await execAsync(git diff --cached ...) }
\* else if (hasWorkingChanges && !isUntracked) { await execAsync(git diff ...) }
NeedsLookup(isStaged, hasWorkingChanges, isUntracked) ==
    isStaged \/ (hasWorkingChanges /\ ~isUntracked)

LineNeedsLookup(r, line) ==
    NeedsLookup(IsStaged(r, charAt(line, 0), charAt(line, 1)),
                HasWorkingChanges(charAt(line, 1)),
                IsUntracked(charAt(line, 0), charAt(line, 1)))

Outstanding == {k \in 1..Len(lookups) : lookups[k].state = "running"}

InLoop == route # "none" /\ ~responded /\ Outstanding = {} /\ lineIndex < Len(LoopLines)

InitBatch ==
    /\ statusOutput \in StatusOutputs
    /\ diffFails \in SUBSET LookupFiles
    /\ route = "none"
    /\ lineIndex = 0
    /\ lookups = <<>>
    /\ responded = FALSE
    /\ NoTree
    /\ NoSheets
    /\ NoUi

\* The request arrives at one of the three copies of the action.
StatusRequest ==
    /\ route = "none"
    /\ route' \in Routes
    /\ UNCHANGED <<statusOutput, diffFails, lineIndex, lookups, responded,
                   treeVars, sheetVars, uiVars>>

\* `continue`, or the if that is not entered.
SkipLine ==
    /\ InLoop
    /\ Len(CurrentLine) < 3 \/ ~HasChangesToReport(route, CurrentLine)
    /\ lineIndex' = lineIndex + 1
    /\ UNCHANGED <<statusOutput, route, diffFails, lookups, responded,
                   treeVars, sheetVars, uiVars>>

\* await execAsync(`git diff [--cached] --numstat "${file}"`)
IssueLookup ==
    /\ InLoop
    /\ Len(CurrentLine) >= 3
    /\ HasChangesToReport(route, CurrentLine)
    /\ LineNeedsLookup(route, CurrentLine)
    /\ lookups' = Append(lookups,
                         [line |-> lineIndex + 1,
                          file |-> FileOf(route, CurrentLine),
                          cached |-> IsStaged(route, charAt(CurrentLine, 0),
                                              charAt(CurrentLine, 1)),
                          state |-> "running"])
    /\ UNCHANGED <<statusOutput, route, diffFails, lineIndex, responded,
                   treeVars, sheetVars, uiVars>>

\* The process exits with 0: the rest of the try block.
LookupCompletes ==
    /\ \E k \in Outstanding :
          /\ lookups[k].file \notin diffFails
          /\ lookups' = [lookups EXCEPT ![k].state = "completed"]
          /\ changes' = changes \o ParseLine(route, LoopLines[lookups[k].line], diffFails)
    /\ lineIndex' = lineIndex + 1
    /\ UNCHANGED <<statusOutput, route, diffFails, responded,
                   variant, fileTree, sheetVars, uiVars>>

\* The process exits with an error: the catch block.
LookupFails ==
    /\ \E k \in Outstanding :
          /\ lookups[k].file \in diffFails
          /\ lookups' = [lookups EXCEPT ![k].state = "failed"]
          /\ changes' = changes \o ParseLine(route, LoopLines[lookups[k].line], diffFails)
    /\ lineIndex' = lineIndex + 1
    /\ UNCHANGED <<statusOutput, route, diffFails, responded,
                   variant, fileTree, sheetVars, uiVars>>

\* Neither branch runs a diff: the record is pushed with additions 0, deletions 0.
PushWithoutLookup ==
    /\ InLoop
    /\ Len(CurrentLine) >= 3
    /\ HasChangesToReport(route, CurrentLine)
    /\ ~LineNeedsLookup(route, CurrentLine)
    /\ changes' = changes \o ParseLine(route, CurrentLine, diffFails)
    /\ lineIndex' = lineIndex + 1
    /\ UNCHANGED <<statusOutput, route, diffFails, lookups, responded,
                   variant, fileTree, sheetVars, uiVars>>

\* return json({ changes, gitPath, branch })
StatusResponse ==
    /\ route # "none"
    /\ ~responded
    /\ Outstanding = {}
    /\ lineIndex = Len(LoopLines)
    /\ responded' = TRUE
    /\ UNCHANGED <<statusOutput, route, diffFails, lineIndex, lookups,
                   treeVars, sheetVars, uiVars>>

NextBatch ==
    \/ StatusRequest
    \/ SkipLine
    \/ IssueLookup
    \/ LookupCompletes
    \/ LookupFails
    \/ PushWithoutLookup
    \/ StatusResponse

SpecBatch == InitBatch /\ [][NextBatch]_vars

\* C21: when the status action has returned, every diff it started has
\* completed or failed; it started at most one diff per line; every line it
\* started one for gave a record and is not untracked; and the list returned
\* holds the record of every line.
C21_BatchCompletion ==
    responded =>
        /\ \A k \in 1..Len(lookups) : lookups[k].state \in {"completed", "failed"}
        /\ \A k, j \in 1..Len(lookups) : k # j => lookups[k].line # lookups[j].line
        /\ \A k \in 1..Len(lookups) :
              LET line == LoopLines[lookups[k].line]
              IN  /\ Len(line) >= 3
                  /\ HasChangesToReport(route, line)
                  /\ ~(line[1] = "?" /\ line[2] = "?")
        /\ changes = statusAction(route, statusOutput, diffFails)

\* Returned after two lines: the diff of one failed, the other is untracked
\* and no diff was started for it.
C21_Witness ==
    /\ responded
    /\ Len(LoopLines) = 2
    /\ \E i \in 1..2 : LoopLines[i][1] = "?" /\ LoopLines[i][2] = "?"
    /\ Len(lookups) = 1
    /\ lookups[1].state = "failed"
    /\ Len(changes) = 2

(***************************************************************************)
(* The store as the service fills it: initializeSheet, addCommit           *)
(***************************************************************************)
MaxStored == 3

\* The commits handed to addCommit: with no file, one file, two files; one
\* commit with the repository type left out ("" here), one of type 'bd'.
CommitDatas ==
    {[hash |-> c[1], message |-> c[2], author |-> c[3], date |-> c[4],
      files |-> f, repositoryType |-> c[5]] :
        c \in {<<"h1", "m1", "a1", "2024-01-01", "">>,
               <<"h2", "m2", "a1", "2024-02-01", "bd">>},
        f \in {<<>>, <<"x.sql">>, <<"x.sql", "y.vb">>}}

\* getFileType on the files of the bounded set.
getFileType(filename, repositoryType) ==
    CASE filename = "x.sql" -> "Archivo SQL (.sql)"
      [] filename = "y.vb" /\ repositoryType = "bd" -> "BD - Otro (.vb)"
      [] filename = "y.vb" /\ repositoryType # "bd" -> "Clase (.vb)"
      [] OTHER -> "App - Otro (.sin extensión)"

RepositoryLabel(repositoryType) == IF repositoryType = "app" THEN AppLabel ELSE DbLabel

\* The rows addCommit builds: one per file, or one with the placeholder.
CommitValues(data) ==
    LET repositoryType == OrElse(data.repositoryType, "app")
    IN  IF Len(data.files) = 0
        THEN << <<data.hash, data.message, data.author, data.date, NoFiles, "N/A",
                  RepositoryLabel(repositoryType), RegisteredAt>> >>
        ELSE [i \in 1..Len(data.files) |->
                 <<data.hash, data.message, data.author, data.date, data.files[i],
                   getFileType(data.files[i], repositoryType),
                   RepositoryLabel(repositoryType), RegisteredAt>>]

\* An append that writes right below row 1.
InsertBelowRow1(sheet, values) ==
    IF sheet = <<>> THEN values ELSE <<Head(sheet)>> \o values \o Tail(sheet)

\* values.append over 'Commits!A:H': the rows go below the last row that
\* holds data.
AppendValues(sheet, values) == sheet \o values

addCommit ==
    \E data \in CommitDatas :
        /\ Len(commitsSheet) + Len(CommitValues(data)) <= MaxStored + 1
        /\ lastCall' = "addCommit"
        /\ commitData' = data
        /\ returned' = <<>>
        /\ \/ /\ commitsSheet' = AppendValues(commitsSheet, CommitValues(data))
              /\ failed' = FALSE
              /\ addedCommits' = Append(addedCommits, data)
           \/ \* the request is rejected: 'No se pudo agregar el commit a Google Sheets'
              /\ commitsSheet' = commitsSheet
              /\ failed' = TRUE
              /\ addedCommits' = addedCommits
        /\ UNCHANGED <<uniqueSheet, uniqueFilesMap, syncVars, colourVars,
                       treeVars, statusVars, uiVars>>

initializeSheet ==
    /\ lastCall' = "initializeSheet"
    /\ returned' = <<>>
    /\ failed' = FALSE
    /\ commitsSheet' = IF commitsSheet = <<>> THEN <<CommitsHeaders>> ELSE commitsSheet
    /\ UNCHANGED <<uniqueSheet, uniqueFilesMap, commitData, addedCommits, syncVars, colourVars,
                   treeVars, statusVars, uiVars>>

\* The sheet "Commits" exists and is empty, or holds its header row.
InitStore ==
    /\ commitsSheet \in {<<>>, <<CommitsHeaders>>}
    /\ uniqueSheet = <<>>
    /\ uniqueFilesMap = <<>>
    /\ lastCall = "none"
    /\ returned = <<>>
    /\ failed = FALSE
    /\ commitData = <<>>
    /\ addedCommits = <<>>
    /\ NoSync
    /\ NoColour
    /\ NoTree
    /\ NoStatus
    /\ NoUi

NextStore == initializeSheet \/ addCommit \/ getCommits \/ createUniqueFilesSheet

SpecStore == InitStore /\ [][NextStore]_vars

(***************************************************************************)
(* Properties of the store                                                 *)
(***************************************************************************)
IsPrefix(a, b) == Len(a) <= Len(b) /\ SubSeq(b, 1, Len(a)) = a

DistinctHashes(list) ==
    \A i, j \in 1..Len(list) : i # j => list[i].hash # list[j].hash

\* C22: on a spreadsheet that was empty at first, after initializeSheet and
\* addCommit calls in any order, each hash added once, getCommits returns one
\* entry per commit added, in the order added, with its hash, message,
\* author, date, repository type ('app' when none was given) and files.
C22_RoundTrip ==
    Listed /\ DistinctHashes(addedCommits) =>
        /\ Len(returned) = Len(addedCommits)
        /\ \A i \in 1..Len(addedCommits) :
              /\ returned[i].hash = addedCommits[i].hash
              /\ returned[i].message = addedCommits[i].message
              /\ returned[i].author = addedCommits[i].author
              /\ returned[i].date = addedCommits[i].date
              /\ returned[i].repositoryType = OrElse(addedCommits[i].repositoryType, "app")
              /\ returned[i].files = addedCommits[i].files

DefaultColour == "#4ECDC4"
White == "#FFFFFF"

\* hexToRgb on the colours of the bounded set: the three channels in 255ths,
\* or the default colour (in 100ths) when the text is not six hex digits.
hexToRgb(hex) ==
    CASE hex = "#4ECDC4" -> [red |-> 78, green |-> 205, blue |-> 196, over |-> 255]
      [] hex = "#FF6B6B" -> [red |-> 255, green |-> 107, blue |-> 107, over |-> 255]
      [] hex = "#FFFFFF" -> [red |-> 255, green |-> 255, blue |-> 255, over |-> 255]
      [] OTHER -> [red |-> 30, green |-> 80, blue |-> 77, over |-> 100]

\* existingResponse.data.values?.length || 1 over 'Commits!A:A'
ExistingRowCount(sheet) == IF Len(sheet) = 0 THEN 1 ELSE Len(sheet)

\* if (commitData.color && commitData.color !== '#FFFFFF')
HasColour(color) == color # "" /\ color # White

\* repeatCell over the rows startRowIndex <= row < endRowIndex, columns A-H.
RepeatCell(cells, startRowIndex, endRowIndex, rgbColor) ==
    {c \in cells : c[1] < startRowIndex \/ c[1] >= endRowIndex}
        \cup {<<row, rgbColor>> : row \in startRowIndex..(endRowIndex - 1)}

(***************************************************************************)
(* The API route: sync-commit and sync-recent-commits                      *)
(*                                                                         *)
(* sync-recent-commits awaits getRecentCommits, which fetches the list and *)
(* then the details of every commit (Promise.all), and then awaits one     *)
(* addCommit per commit in a loop; an exception leaves the loop and is     *)
(* answered with an error.                                                 *)
(***************************************************************************)
\* What getCommitInfo returns for the commits of the bounded set.
CommitInfos ==
    { [hash |-> "h1", message |-> "m1", author |-> "a1", date |-> "2024-01-01",
       files |-> <<"x.sql">>],
      [hash |-> "h2", message |-> "m2", author |-> "a1", date |-> "2024-02-01",
       files |-> <<"x.sql", "y.vb">>] }

\* What getRecentCommits returns: no commit twice.
RecentCommitLists ==
    {list \in UNION {[1..n -> CommitInfos] : n \in 0..2} : DistinctHashes(list)}

RepositoryTypes == {"app", "bd"}

\* The colour field of the form: left out, or white.
FormColours == {"", White}

\* The argument the route hands to addCommit.
CommitDataOf(info, repositoryType, color) ==
    [hash |-> info.hash, message |-> info.message, author |-> info.author,
     date |-> info.date, files |-> info.files, repositoryType |-> repositoryType,
     color |-> color]

\* A loop that hands the commits to addCommit last one first.
NextCommitFromEnd(list, next) == list[Len(list) - next]

\* for (const commit of commits)
NextCommit(list, next) == list[next + 1]

RECURSIVE RowsOfCommits(_, _)
RowsOfCommits(list, repositoryType) ==
    IF list = <<>> THEN <<>>
    ELSE CommitValues(CommitDataOf(Head(list), repositoryType, ""))
             \o RowsOfCommits(Tail(list), repositoryType)

NoRequest == syncPc \in {"idle", "fetchFailed", "done"}

InitSync ==
    /\ commitsSheet \in {<<>>, <<CommitsHeaders>>}
    /\ uniqueSheet = <<>>
    /\ uniqueFilesMap = <<>>
    /\ lastCall = "none"
    /\ returned = <<>>
    /\ failed = FALSE
    /\ commitData = <<>>
    /\ addedCommits = <<>>
    /\ NoSync
    /\ NoColour
    /\ NoTree
    /\ NoStatus
    /\ NoUi

\* case 'sync-commit': getCommitInfo, then addCommit with the colour of the
\* form or the default colour.  (The argument of addCommit is read off
\* syncCommits and syncRepositoryType here; commitData and addedCommits follow
\* the calls made on the service itself.)
SyncCommit ==
    /\ NoRequest
    /\ \E info \in CommitInfos, repositoryType \in RepositoryTypes, color \in FormColours :
          LET data == CommitDataOf(info, repositoryType, OrElse(color, DefaultColour))
              values == CommitValues(data)
              startRowIndex == ExistingRowCount(commitsSheet)
              endRowIndex == startRowIndex + Len(values)
          IN  /\ Len(commitsSheet) + Len(values) <= MaxStored + 1
              /\ syncRepositoryType' = repositoryType
              /\ syncBase' = Len(commitsSheet)
              /\ \/ \* getCommitInfo throws
                    /\ syncPc' = "fetchFailed"
                    /\ syncCommits' = <<>>
                    /\ syncNext' = 0
                    /\ syncResponse' = "error"
                    /\ UNCHANGED <<commitsSheet, lastCall, returned, failed, background>>
                 \/ \* addCommit throws
                    /\ syncPc' = "done"
                    /\ syncCommits' = <<info>>
                    /\ syncNext' = 0
                    /\ syncResponse' = "error"
                    /\ lastCall' = "addCommit"
                    /\ returned' = <<>>
                    /\ failed' = TRUE
                    /\ UNCHANGED <<commitsSheet, background>>
                 \/ \* addCommit returns; the colour was applied, or not
                    /\ syncPc' = "done"
                    /\ syncCommits' = <<info>>
                    /\ syncNext' = 1
                    /\ syncResponse' = "success"
                    /\ lastCall' = "addCommit"
                    /\ returned' = <<>>
                    /\ failed' = FALSE
                    /\ commitsSheet' = AppendValues(commitsSheet, values)
                    /\ \/ /\ HasColour(data.color)
                          /\ background' = RepeatCell(background, startRowIndex, endRowIndex,
                                                      hexToRgb(data.color))
                       \/ background' = background
    /\ UNCHANGED <<uniqueSheet, uniqueFilesMap, commitData, addedCommits, calls,
                   treeVars, statusVars, uiVars>>

\* case 'sync-recent-commits': the request arrives.
SyncRecentRequest ==
    /\ NoRequest
    /\ syncPc' = "fetching"
    /\ syncRepositoryType' \in RepositoryTypes
    /\ syncCommits' = <<>>
    /\ syncNext' = 0
    /\ syncResponse' = "none"
    /\ syncBase' = Len(commitsSheet)
    /\ UNCHANGED <<commitsSheet, uniqueSheet, uniqueFilesMap, lastCall, returned, failed,
                   commitData, addedCommits, colourVars, treeVars, statusVars, uiVars>>

\* getRecentCommits returns the details of every commit of the list.
GetRecentCommitsReturns ==
    /\ syncPc = "fetching"
    /\ \E list \in RecentCommitLists :
          /\ Len(commitsSheet) + Len(RowsOfCommits(list, syncRepositoryType)) <= MaxStored + 1
          /\ syncCommits' = list
    /\ syncPc' = "adding"
    /\ UNCHANGED <<syncRepositoryType, syncNext, syncResponse, syncBase,
                   commitsSheet, uniqueSheet, uniqueFilesMap, lastCall, returned, failed,
                   commitData, addedCommits, colourVars, treeVars, statusVars, uiVars>>

\* The request for the list, or a getCommitInfo of the Promise.all, fails:
\* getRecentCommits throws and the route answers with the error.
GetRecentCommitsThrows ==
    /\ syncPc = "fetching"
    /\ syncPc' = "fetchFailed"
    /\ syncResponse' = "error"
    /\ UNCHANGED <<syncRepositoryType, syncCommits, syncNext, syncBase,
                   commitsSheet, uniqueSheet, uniqueFilesMap, lastCall, returned, failed,
                   commitData, addedCommits, colourVars, treeVars, statusVars, uiVars>>

\* await sheetsService.addCommit({...commit, repositoryType}) returns.
SyncAddCommit ==
    /\ syncPc = "adding"
    /\ syncNext < Len(syncCommits)
    /\ LET data == CommitDataOf(NextCommit(syncCommits, syncNext), syncRepositoryType, "")
       IN  /\ lastCall' = "addCommit"
           /\ returned' = <<>>
           /\ failed' = FALSE
           /\ commitsSheet' = AppendValues(commitsSheet, CommitValues(data))
    /\ syncNext' = syncNext + 1
    /\ UNCHANGED <<syncPc, syncRepositoryType, syncCommits, syncResponse, syncBase,
                   uniqueSheet, uniqueFilesMap, commitData, addedCommits, colourVars,
                   treeVars, statusVars, uiVars>>

\* It throws: the loop is left, the catch of the route answers with the error.
SyncAddCommitThrows ==
    /\ syncPc = "adding"
    /\ syncNext < Len(syncCommits)
    /\ lastCall' = "addCommit"
    /\ returned' = <<>>
    /\ failed' = TRUE
    /\ syncPc' = "done"
    /\ syncResponse' = "error"
    /\ UNCHANGED <<syncRepositoryType, syncCommits, syncNext, syncBase,
                   commitsSheet, commitData, addedCommits,
                   uniqueSheet, uniqueFilesMap, colourVars, treeVars, statusVars, uiVars>>

\* return data({ success: true, commits, message })
SyncRecentResponse ==
    /\ syncPc = "adding"
    /\ syncNext = Len(syncCommits)
    /\ syncPc' = "done"
    /\ syncResponse' = "success"
    /\ UNCHANGED <<syncRepositoryType, syncCommits, syncNext, syncBase,
                   commitsSheet, uniqueSheet, uniqueFilesMap, lastCall, returned, failed,
                   commitData, addedCommits, colourVars, treeVars, statusVars, uiVars>>

NextSync ==
    \/ SyncCommit
    \/ SyncRecentRequest
    \/ GetRecentCommitsReturns
    \/ GetRecentCommitsThrows
    \/ SyncAddCommit
    \/ SyncAddCommitThrows
    \/ SyncRecentResponse
    \/ createUniqueFilesSheet

SpecSync == InitSync /\ [][NextSync]_vars

(***************************************************************************)
(* Properties of the sync actions                                          *)
(***************************************************************************)
\* The rows "Commits" holds beyond those it held when the request arrived.
RowsSinceRequest == SubSeq(commitsSheet, syncBase + 1, Len(commitsSheet))

\* The rows of the fetched commits, first commit first, one row per file or
\* one placeholder row.
RECURSIVE ExpectedRows(_, _)
ExpectedRows(list, repositoryLabel) ==
    IF list = <<>> THEN <<>>
    ELSE LET c == Head(list)
             rows == IF c.files = <<>>
                     THEN << <<c.hash, c.message, c.author, c.date, NoFiles,
                               repositoryLabel>> >>
                     ELSE [i \in 1..Len(c.files) |->
                              <<c.hash, c.message, c.author, c.date, c.files[i],
                                repositoryLabel>>]
         IN  rows \o ExpectedRows(Tail(list), repositoryLabel)

\* Columns A-E and G of a row.
CommitColumns(row) == <<row[1], row[2], row[3], row[4], row[5], row[7]>>

SyncLabel == IF syncRepositoryType = "app" THEN AppLabel ELSE DbLabel

AllRowsAppended ==
    [k \in 1..Len(RowsSinceRequest) |-> CommitColumns(RowsSinceRequest[k])]
        = ExpectedRows(syncCommits, SyncLabel)

\* C24: once sync-recent-commits has answered after getRecentCommits
\* returned, it answered success exactly when the rows of every commit
\* returned were appended, in the order returned; when getRecentCommits
\* threw it answered with an error and appended no row.
C24_SyncAll ==
    /\ syncPc = "done" => (syncResponse = "success" <=> AllRowsAppended)
    /\ syncPc = "done" /\ syncResponse = "error" =>
          IsPrefix([k \in 1..Len(RowsSinceRequest) |-> CommitColumns(RowsSinceRequest[k])],
                   ExpectedRows(syncCommits, SyncLabel))
    /\ syncPc = "fetchFailed" => syncResponse = "error" /\ RowsSinceRequest = <<>>
    /\ syncPc \in {"fetching", "adding"} => syncResponse = "none"

\* Two commits were fetched and the rows of both were appended below the
\* header, the first commit's first.
C24_Witness ==
    /\ syncPc = "done"
    /\ syncResponse = "success"
    /\ Len(syncCommits) = 2
    /\ syncNext = 2
    /\ Len(RowsSinceRequest) = 3
    /\ RowsSinceRequest[1][1] = syncCommits[1].hash
    /\ RowsSinceRequest[3][1] = syncCommits[2].hash
    /\ syncCommits[1].hash # syncCommits[2].hash

\* The commits (hashes) of the rows of a (file, repository) pair.
CommitsOfPair(rows, file, repository) ==
    {rows[k][1] : k \in RowsOfPair(rows, file, repository)}

\* C25: after sync-commit and sync-recent-commits operations on a sheet
\* with its header row, the same commit synced more than once included, the
\* count that createUniqueFilesSheet writes for a file of a repository is
\* the number of distinct commits among the rows of that file and repository.
C25_TouchCount ==
    Reported /\ commitsSheet[1] = CommitsHeaders =>
        \A k \in 2..Len(uniqueSheet) :
            uniqueSheet[k][9] =
                ToString(Cardinality(CommitsOfPair(DataRows, uniqueSheet[k][1],
                                                   uniqueSheet[k][3])))

(***************************************************************************)
(* addCommit with a colour, one request to the Sheets API at a time        *)
(*                                                                         *)
(* The method reads the row count, appends, and then formats the rows it   *)
(* computed from the count; two requests of the route can be inside it at  *)
(* the same time.                                                          *)
(***************************************************************************)
Callers == {1, 2}

CallColours == {"", White, "#4ECDC4", "#FF6B6B"}

IdleCall ==
    [pc |-> "idle", color |-> "", values |-> <<>>, startRowIndex |-> 0, endRowIndex |-> 0,
     updatedRow |-> 0, formatted |-> FALSE]

\* The rows of the calls that have not appended yet.
PendingRows ==
    LET pending == {c \in Callers : calls[c].pc \in {"count", "append"}}
        n[S \in SUBSET Callers] ==
            IF S = {} THEN 0
            ELSE LET c == CHOOSE x \in S : TRUE IN Len(calls[c].values) + n[S \ {c}]
    IN  n[pending]

InitColour ==
    /\ commitsSheet \in {<<>>, <<CommitsHeaders>>}
    /\ calls = [c \in Callers |-> IdleCall]
    /\ background = {}
    /\ uniqueSheet = <<>>
    /\ uniqueFilesMap = <<>>
    /\ lastCall = "none"
    /\ returned = <<>>
    /\ failed = FALSE
    /\ commitData = <<>>
    /\ addedCommits = <<>>
    /\ NoSync
    /\ NoTree
    /\ NoStatus
    /\ NoUi

\* addCommit(commitData) is entered: the rows are built.
AddCommitCalled ==
    \E c \in Callers, info \in CommitInfos, color \in CallColours :
        LET values == CommitValues(CommitDataOf(info, "app", color))
        IN  /\ calls[c].pc = "idle"
            /\ Len(commitsSheet) + PendingRows + Len(values) <= MaxStored + 1
            /\ calls' = [calls EXCEPT ![c] = [IdleCall EXCEPT !.pc = "count",
                                                             !.color = color,
                                                             !.values = values]]
            /\ UNCHANGED <<commitsSheet, background, uniqueSheet, uniqueFilesMap, lastCall,
                           returned, failed, commitData, addedCommits, syncVars,
                           treeVars, statusVars, uiVars>>

\* values.get over 'Commits!A:A' answers.
ReadRowCount ==
    \E c \in Callers :
        /\ calls[c].pc = "count"
        /\ calls' = [calls EXCEPT ![c].pc = "append",
                                  ![c].startRowIndex = ExistingRowCount(commitsSheet),
                                  ![c].endRowIndex = ExistingRowCount(commitsSheet)
                                                         + Len(calls[c].values)]
        /\ UNCHANGED <<commitsSheet, background, uniqueSheet, uniqueFilesMap, lastCall,
                       returned, failed, commitData, addedCommits, syncVars,
                       treeVars, statusVars, uiVars>>

\* values.append over 'Commits!A:H' answers: the rows are in the sheet.
AppendRows ==
    \E c \in Callers :
        /\ calls[c].pc = "append"
        /\ commitsSheet' = AppendValues(commitsSheet, calls[c].values)
        /\ calls' = [calls EXCEPT ![c].pc = "format", ![c].updatedRow = Len(commitsSheet)]
        /\ UNCHANGED <<background, uniqueSheet, uniqueFilesMap, lastCall,
                       returned, failed, commitData, addedCommits, syncVars,
                       treeVars, statusVars, uiVars>>

\* values.append is rejected: addCommit throws.
AppendThrows ==
    \E c \in Callers :
        /\ calls[c].pc = "append"
        /\ calls' = [calls EXCEPT ![c].pc = "threw"]
        /\ UNCHANGED <<commitsSheet, background, uniqueSheet, uniqueFilesMap, lastCall,
                       returned, failed, commitData, addedCommits, syncVars,
                       treeVars, statusVars, uiVars>>

\* batchUpdate with repeatCell answers.
FormatRows ==
    \E c \in Callers :
        /\ calls[c].pc = "format"
        /\ HasColour(calls[c].color)
        /\ background' = RepeatCell(background, calls[c].startRowIndex, calls[c].endRowIndex,
                                    hexToRgb(calls[c].color))
        /\ calls' = [calls EXCEPT ![c].pc = "returned", ![c].formatted = TRUE]
        /\ UNCHANGED <<commitsSheet, uniqueSheet, uniqueFilesMap, lastCall,
                       returned, failed, commitData, addedCommits, syncVars,
                       treeVars, statusVars, uiVars>>

\* getCommitsSheetId or batchUpdate fails inside the inner try: a warning is
\* logged and addCommit returns.
FormatThrows ==
    \E c \in Callers :
        /\ calls[c].pc = "format"
        /\ HasColour(calls[c].color)
        /\ calls' = [calls EXCEPT ![c].pc = "returned"]
        /\ UNCHANGED <<commitsSheet, background, uniqueSheet, uniqueFilesMap, lastCall,
                       returned, failed, commitData, addedCommits, syncVars,
                       treeVars, statusVars, uiVars>>

\* No colour, or white: the format step is not entered.
ReturnWithoutFormat ==
    \E c \in Callers :
        /\ calls[c].pc = "format"
        /\ ~HasColour(calls[c].color)
        /\ calls' = [calls EXCEPT ![c].pc = "returned"]
        /\ UNCHANGED <<commitsSheet, background, uniqueSheet, uniqueFilesMap, lastCall,
                       returned, failed, commitData, addedCommits, syncVars,
                       treeVars, statusVars, uiVars>>

NextColour ==
    \/ AddCommitCalled
    \/ ReadRowCount
    \/ AppendRows
    \/ AppendThrows
    \/ FormatRows
    \/ FormatThrows
    \/ ReturnWithoutFormat

SpecColour == InitColour /\ [][NextColour]_vars

\* The rows a call appended, by 0-based index.
AppendedRows(c) == calls[c].updatedRow..(calls[c].updatedRow + Len(calls[c].values) - 1)

\* C26: the coloured rows are exactly the rows appended by the calls whose
\* format step has answered, each in the colour of its call; and a call
\* whose format step failed has returned with its rows in the sheet.
C26_ColourTargets ==
    /\ background =
          UNION {{<<row, hexToRgb(calls[c].color)>> : row \in AppendedRows(c)} :
                    c \in {x \in Callers : calls[x].pc = "returned" /\ calls[x].formatted}}
    /\ \A c \in Callers :
          calls[c].pc = "returned" =>
              SubSeq(commitsSheet, calls[c].updatedRow + 1,
                     calls[c].updatedRow + Len(calls[c].values)) = calls[c].values

\* The same, for a sheet that holds its header row.
C26_WithHeaderRow == commitsSheet # <<>> /\ commitsSheet[1] = CommitsHeaders => C26_ColourTargets

(***************************************************************************)
(* The page Index(): the changes it shows and its optimistic copies        *)
(***************************************************************************)
GitPath == "repo"

\* json({changes, gitPath, branch})
ChangesData(list) ==
    [defined |-> TRUE, hasChanges |-> TRUE, changes |-> list, gitPath |-> GitPath,
     success |-> FALSE, operation |-> "", error |-> FALSE]

\* json({success, operation, gitPath, branch})
SuccessData(operation) ==
    [defined |-> TRUE, hasChanges |-> FALSE, changes |-> <<>>, gitPath |-> GitPath,
     success |-> TRUE, operation |-> operation, error |-> FALSE]

\* json({error})
ErrorData ==
    [defined |-> TRUE, hasChanges |-> FALSE, changes |-> <<>>, gitPath |-> "",
     success |-> FALSE, operation |-> "", error |-> TRUE]

\* What `git status --porcelain` prints in the repositories of the bounded
\* set: nothing; a staged file and a modified file in two folders; a
\* modified and an untracked file; a staged file; a staged and an untracked
\* file.
UiOutputs ==
    { <<>>,
      JoinLines(<< <<"M", " ", " ", "a", "/", "B">>, <<" ", "M", " ", "B", "/", "a">> >>),
      JoinLines(<< <<" ", "M", " ", "a">>, <<"?", "?", " ", "B">> >>),
      JoinLines(<< <<"M", " ", " ", "a">> >>),
      JoinLines(<< <<"M", " ", " ", "a">>, <<"?", "?", " ", "B">> >>) }

\* fetcher.data || actionData
CurrentDataOf(fetched, action) == IF fetched.defined THEN fetched ELSE action

CurrentData == CurrentDataOf(fetcherData, actionData)

CurrentChangesOf(optimistic, data, cache) ==
    IF Len(optimistic) > 0 THEN optimistic
    ELSE IF data.hasChanges /\ Len(data.changes) > 0 THEN data.changes
    ELSE cache

CurrentChanges == CurrentChangesOf(optimisticChanges, CurrentData, lastValidChanges)

IsLoading == fetcherSubmission # NoSubmission \/ isUnstaging

Includes(list, x) == \E i \in 1..Len(list) : list[i] = x

StagedChanges(list) == SelectSeq(list, LAMBDA c : c.isStaged)

SelectedStaged ==
    SelectSeq(selectedFiles,
              LAMBDA f : \E i \in 1..Len(CurrentChanges) :
                             CurrentChanges[i].file = f /\ CurrentChanges[i].isStaged)

\* [...new Set(list)]
RECURSIVE Unique(_)
Unique(list) ==
    IF list = <<>> THEN <<>>
    ELSE LET rest == Unique(SubSeq(list, 1, Len(list) - 1))
         IN  IF Includes(rest, list[Len(list)]) THEN rest ELSE Append(rest, list[Len(list)])

\* useEffect: keep the last changes that were not empty.
CacheAfter(data, cache) ==
    IF data.hasChanges /\ Len(data.changes) > 0 THEN data.changes ELSE cache

\* getAllFolderPaths
RECURSIVE getAllFolderPaths(_)
getAllFolderPaths(nodes) ==
    UNION {IF nodes[i].isDirectory
           THEN {nodes[i].path} \cup getAllFolderPaths(nodes[i].children)
           ELSE {} : i \in 1..Len(nodes)}

\* useEffect on [actionData?.changes, fetcher.data?.changes, expandedFolders.size]:
\* with changes to show and no folder expanded, expand every folder.
ExpandOnLoad(source, expanded) ==
    IF source.hasChanges /\ Len(source.changes) > 0 /\ expanded = {}
    THEN getAllFolderPaths(buildFileTreeIndex(source.changes))
    ELSE expanded

\* if (data.changes && data.changes.length > 0): the answer brings the new
\* change list; the effect caches it and a 100 ms timer clears the
\* optimistic copy (taken here with the answer).
HasNewChanges(data) == data.hasChanges /\ Len(data.changes) > 0

\* The folders of the two trees that are on screen: every folder above them
\* is expanded.
RECURSIVE IsOnScreen(_)
IsOnScreen(path) ==
    \/ Len(ParentPath(path)) = 0
    \/ ParentPath(path) \in expandedFolders /\ IsOnScreen(ParentPath(path))

FoldersOnScreen ==
    {path \in getAllFolderPaths(buildFileTreeIndex(CurrentChanges)) : IsOnScreen(path)}

\* newExpanded: the path removed when it is in the set, added when it is not.
Toggled(expanded, path) ==
    IF path \in expanded THEN expanded \ {path} ELSE expanded \cup {path}

\* A folder header of a tree is clicked; the effect runs when the size of
\* the set has changed.
ToggleFolder(path) ==
    /\ actionData.hasChanges
    /\ path \in FoldersOnScreen
    /\ expandedFolders' = ExpandOnLoad(CurrentData, Toggled(expandedFolders, path))
    /\ UNCHANGED <<actionData, fetcherData, fetcherSubmission, selectedFiles,
                   optimisticChanges, lastValidChanges, isUnstaging, latestResponse,
                   treeVars, sheetVars, statusVars>>

handleToggleFolder == \E path \in FoldersOnScreen : ToggleFolder(path)

\* The form "Repositorio Git" is submitted and the status action answers.
SubmitGitPath ==
    /\ ~IsLoading
    /\ \E output \in UiOutputs :
          actionData' = ChangesData(statusAction("index", output, {}))
    /\ lastValidChanges' = CacheAfter(CurrentDataOf(fetcherData, actionData'), lastValidChanges)
    /\ expandedFolders' = ExpandOnLoad(CurrentDataOf(fetcherData, actionData'), expandedFolders)
    /\ latestResponse' = "action"
    /\ UNCHANGED <<fetcherData, fetcherSubmission, selectedFiles, optimisticChanges,
                   isUnstaging, treeVars, sheetVars, statusVars>>

\* The checkbox of a file of one of the two trees is clicked.
handleFileSelect ==
    /\ actionData.hasChanges
    /\ \E i \in 1..Len(CurrentChanges) :
          LET file == CurrentChanges[i].file
          IN  selectedFiles' =
                  IF ~Includes(selectedFiles, file)
                  THEN Append(selectedFiles, file)
                  ELSE SelectSeq(selectedFiles, LAMBDA f : f # file)
    /\ UNCHANGED <<actionData, fetcherData, fetcherSubmission, optimisticChanges,
                   lastValidChanges, isUnstaging, expandedFolders, latestResponse,
                   treeVars, sheetVars, statusVars>>

handleSelectAll ==
    /\ actionData.hasChanges
    /\ selectedFiles' =
          IF CurrentData.hasChanges
          THEN [i \in 1..Len(CurrentData.changes) |-> CurrentData.changes[i].file]
          ELSE selectedFiles
    /\ UNCHANGED <<actionData, fetcherData, fetcherSubmission, optimisticChanges,
                   lastValidChanges, isUnstaging, expandedFolders, latestResponse,
                   treeVars, sheetVars, statusVars>>

handleDeselectAll ==
    /\ actionData.hasChanges
    /\ selectedFiles' = <<>>
    /\ UNCHANGED <<actionData, fetcherData, fetcherSubmission, optimisticChanges,
                   lastValidChanges, isUnstaging, expandedFolders, latestResponse,
                   treeVars, sheetVars, statusVars>>

\* The button "Seleccionar todos staged".
SelectAllStaged ==
    /\ actionData.hasChanges
    /\ Len(StagedChanges(CurrentChanges)) > 0
    /\ selectedFiles' =
          LET staged == StagedChanges(CurrentChanges)
          IN  Unique(selectedFiles \o [i \in 1..Len(staged) |-> staged[i].file])
    /\ UNCHANGED <<actionData, fetcherData, fetcherSubmission, optimisticChanges,
                   lastValidChanges, isUnstaging, expandedFolders, latestResponse,
                   treeVars, sheetVars, statusVars>>

handleOptimisticAdd(current, selected) ==
    [i \in 1..Len(current) |->
        IF Includes(selected, current[i].file)
        THEN [current[i] EXCEPT !.isStaged = TRUE]
        ELSE current[i]]

handleOptimisticUnstage(current, selected) ==
    [i \in 1..Len(current) |->
        IF Includes(selected, current[i].file) /\ current[i].isStaged
        THEN [current[i] EXCEPT !.isStaged = FALSE]
        ELSE current[i]]

handleAdd ==
    /\ actionData.hasChanges
    /\ Len(selectedFiles) > 0
    /\ ~IsLoading
    /\ CurrentData.gitPath # ""
    /\ optimisticChanges' =
          IF Len(CurrentChanges) = 0 THEN optimisticChanges
          ELSE handleOptimisticAdd(CurrentChanges, selectedFiles)
    /\ fetcherSubmission' = [operation |-> "add", selectedFiles |-> selectedFiles]
    /\ UNCHANGED <<actionData, fetcherData, selectedFiles, lastValidChanges, isUnstaging,
                   expandedFolders, latestResponse,
                   treeVars, sheetVars, statusVars>>

handleUnstage ==
    /\ actionData.hasChanges
    /\ Len(SelectedStaged) > 0
    /\ ~IsLoading
    /\ CurrentData.gitPath # ""
    /\ optimisticChanges' =
          IF Len(CurrentChanges) = 0 THEN optimisticChanges
          ELSE handleOptimisticUnstage(CurrentChanges, selectedFiles)
    /\ isUnstaging' = TRUE
    /\ fetcherSubmission' = [operation |-> "unstage", selectedFiles |-> selectedFiles]
    /\ UNCHANGED <<actionData, fetcherData, selectedFiles, lastValidChanges,
                   expandedFolders, latestResponse,
                   treeVars, sheetVars, statusVars>>

\* The action answers the fetcher: the git command ran, or it threw.  The
\* effect on fetcher.data runs with the answer.
FetcherAnswers ==
    /\ fetcherSubmission # NoSubmission
    /\ fetcherSubmission' = NoSubmission
    /\ \/ /\ fetcherData' = SuccessData(fetcherSubmission.operation)
          /\ selectedFiles' = <<>>
          /\ isUnstaging' = FALSE
          /\ optimisticChanges' = IF HasNewChanges(fetcherData') THEN <<>>
                                  ELSE optimisticChanges
       \/ /\ fetcherData' = ErrorData
          /\ optimisticChanges' = <<>>
          /\ UNCHANGED <<selectedFiles, isUnstaging>>
    /\ lastValidChanges' = CacheAfter(CurrentDataOf(fetcherData', actionData), lastValidChanges)
    /\ latestResponse' = "fetcher"
    /\ UNCHANGED <<actionData, expandedFolders, treeVars, sheetVars, statusVars>>

InitUi ==
    /\ NoUi
    /\ NoTree
    /\ NoSheets
    /\ NoStatus

NextUi ==
    \/ SubmitGitPath
    \/ handleFileSelect
    \/ handleSelectAll
    \/ handleDeselectAll
    \/ SelectAllStaged
    \/ handleAdd
    \/ handleUnstage
    \/ handleToggleFolder
    \/ FetcherAnswers

SpecUi == InitUi /\ [][NextUi]_vars

\* The action that received a fetcher submission answers it: the request
\* ends with the json of the action or with the json of its catch.
SpecUiLive == SpecUi /\ WF_vars(FetcherAnswers)

(***************************************************************************)
(* Properties of the page                                                  *)
(***************************************************************************)
UntrackedNotStaged(list) == \A i \in 1..Len(list) : list[i].isUntracked => ~list[i].isStaged

\* C19: every record the status action returned and every record of the
\* list the page shows, optimistic copies included, has
\* isUntracked => ~isStaged.
C19_UntrackedNotStaged ==
    /\ UntrackedNotStaged(actionData.changes)
    /\ UntrackedNotStaged(CurrentChanges)

\* C27: after an error answer optimisticChanges is null; after a success
\* answer to an add or unstage request optimisticChanges is null at some
\* later time.
C27_OptimisticReplaced ==
    /\ [](fetcherData.error /\ fetcherSubmission = NoSubmission => optimisticChanges = <<>>)
    /\ (fetcherData.success /\ fetcherSubmission = NoSubmission) ~> (optimisticChanges = <<>>)

\* C28: whenever isUnstaging is true it is false again at some later time.
C28_UnstagingReleased == isUnstaging ~> ~isUnstaging

\* C29: when no optimistic copy is pending and the answer that arrived last
\* carries a change list, the list shown is that list; an empty list shows
\* no file.
C29_TracksLatest ==
    optimisticChanges = <<>> /\ latestResponse = "action" /\ actionData.hasChanges =>
        CurrentChanges = actionData.changes

\* C30: a click on a folder flips the membership of that folder in
\* expandedFolders and changes nothing else of it; once folders are
\* expanded no other step changes the set.
C30_ToggleOnly ==
    [][/\ \A path \in FoldersOnScreen :
             ToggleFolder(path) => expandedFolders' = Toggled(expandedFolders, path)
       /\ expandedFolders # {} /\ ~handleToggleFolder => expandedFolders' = expandedFolders
      ]_vars

====
